---- MODULE Spec2Model ----
\* Model of the BLUESTAR scraper: the two Playwright tests
\* (tests/bluestar.spec.ts, tests/bluestar_all.spec.ts), their shared
\* workbook data/products_all.xlsx, and the cell coercions of writeExcel.
EXTENDS Integers, Sequences, FiniteSets, TLC

\* ------------------------------------------------------------------ bounds
\* longest enumerated price / stock input string (in characters)
MaxLen == 3
\* product URLs the site lists when the tests run one after the other
MaxUrls == 2
\* product URLs the site lists when the two tests run side by side
MaxParUrls == 1

\* ------------------------------------------------------- program constants
TOTAL_PAGES == 7

\* ----------------------------------------------------------------- strings
\* A string is a sequence of one-character strings.
Digits == <<"0", "1", "2", "3", "4", "5", "6", "7", "8", "9">>

IsDigit(c) == \E i \in 1..10 : Digits[i] = c

DigitVal(c) == (CHOOSE i \in 1..10 : Digits[i] = c) - 1

\* s.replace(/[^...]/g, ''): keep the characters of the set keep, in order
RECURSIVE StripTo(_, _)
StripTo(s, keep) ==
  IF s = <<>> THEN <<>>
  ELSE IF Head(s) \in keep THEN <<Head(s)>> \o StripTo(Tail(s), keep)
       ELSE StripTo(Tail(s), keep)

DigitSet == {Digits[i] : i \in 1..10}

\* the class [0-9.\-] of the price regular expression
PriceChars == DigitSet \cup {".", "-"}

\* the class [0-9\-] of the stock regular expression
StockChars == DigitSet \cup {"-"}

\* value of a sequence of decimal digits
RECURSIVE DecVal(_)
DecVal(ds) ==
  IF ds = <<>> THEN 0
  ELSE 10 * DecVal(SubSeq(ds, 1, Len(ds) - 1)) + DigitVal(ds[Len(ds)])

\* longest prefix of s made of digits only
RECURSIVE DigitPrefix(_)
DigitPrefix(s) ==
  IF s = <<>> \/ ~IsDigit(Head(s)) THEN <<>>
  ELSE <<Head(s)>> \o DigitPrefix(Tail(s))

AllDigits(s) == \A i \in 1..Len(s) : IsDigit(s[i])

\* ------------------------------------------------------------------- cells
\* A cell value.  t = "null": empty cell; t = "str": the string s;
\* t = "num": the number (-1)^neg * mant / 10^scale, mant not a multiple of
\* 10 unless scale = 0.
NullCell == [t |-> "null", s |-> <<>>, neg |-> FALSE, mant |-> 0, scale |-> 0]
StrCell(str) == [t |-> "str", s |-> str, neg |-> FALSE, mant |-> 0, scale |-> 0]

RECURSIVE NumCell(_, _, _)
NumCell(neg, mant, scale) ==
  IF scale > 0 /\ mant % 10 = 0 THEN NumCell(neg, mant \div 10, scale - 1)
  ELSE [t |-> "num", s |-> <<>>, neg |-> neg, mant |-> mant, scale |-> scale]

\* the result of a parse that is NaN
NaN == [t |-> "nan", s |-> <<>>, neg |-> FALSE, mant |-> 0, scale |-> 0]

\* Number(str) for a str of digits, "." and "-" only: "" is 0, otherwise an
\* optional sign and a decimal literal (digits, digits.digits, digits. or
\* .digits); anything else is NaN.
JsNumber(str) ==
  IF str = <<>> THEN NumCell(FALSE, 0, 0)
  ELSE LET neg  == Head(str) = "-"
           body == IF neg THEN Tail(str) ELSE str
           ip   == DigitPrefix(body)
           rest == SubSeq(body, Len(ip) + 1, Len(body))
           fp   == IF rest # <<>> /\ Head(rest) = "." THEN Tail(rest) ELSE <<>>
           ok   == /\ (rest = <<>> \/ Head(rest) = ".")
                   /\ AllDigits(fp)
                   /\ Len(ip) + Len(fp) >= 1
       IN  IF ok THEN NumCell(neg, DecVal(ip \o fp), Len(fp)) ELSE NaN

\* Number.parseInt(str, 10) for a str of digits and "-" only: an optional
\* sign and the longest run of digits after it; no digit there is NaN.
JsParseInt(str) ==
  LET neg  == str # <<>> /\ Head(str) = "-"
      body == IF neg THEN Tail(str) ELSE str
      ip   == DigitPrefix(body)
  IN  IF ip = <<>> THEN NaN ELSE NumCell(neg, DecVal(ip), 0)

\* parsePriceToNumber / parsePrice; p is a string or "null" (a NullCell)
parsePriceToNumber(p) ==
  IF p.t = "null" \/ p.s = <<>> THEN NullCell
  ELSE LET n == JsNumber(StripTo(p.s, PriceChars))
       IN  IF n.t = "num" THEN n ELSE NullCell

\* parseStockToNumber / parseStock
parseStockToNumberDotted(s) ==
  IF s.t = "null" \/ s.s = <<>> THEN NullCell
  ELSE LET cleaned == StripTo(s.s, PriceChars)
       IN  IF cleaned = <<>> THEN NullCell
           ELSE LET n == JsParseInt(cleaned)
                IN  IF n.t = "nan" THEN NullCell ELSE n
parseStockToNumber(s) ==
  IF s.t = "null" \/ s.s = <<>> THEN NullCell
  ELSE LET cleaned == StripTo(s.s, StockChars)
       IN  IF cleaned = <<>> THEN NullCell
           ELSE LET n == JsParseInt(cleaned)
                IN  IF n.t = "nan" THEN NullCell ELSE n

\* a ?? b
Coalesce(a, b) == IF a.t = "null" THEN b ELSE a

\* priceNumber ?? rec.price ?? null
PriceCell(p) == Coalesce(parsePriceToNumber(p), Coalesce(p, NullCell))

\* stockNumber ?? rec.stock ?? null
StockCell(s) == Coalesce(parseStockToNumber(s), Coalesce(s, NullCell))

\* --------------------------------------------------------------- workbook
\* Names, URLs and stamps are strings of one token.
Tok(x) == StrCell(<<x>>)

\* defaultHeaders / columnDefs: the canonical display names, in order
defaultHeaders ==
  <<"DATE", "TIME", "Item Name", "SKU", "DESCRIPTION", "MPN",
    "MANUFACTURER", "PRICE", "STOCK", "PRODUCT URL">>

\* columnDefs: the key of each canonical column, in column order
columnKeys ==
  <<"runDate", "runTime", "productName", "sku", "description", "mpn",
    "manufacturer", "price", "stock", "productUrl">>

\* A cell of an in-memory array row that was never assigned
HoleCell == [t |-> "hole", s |-> <<>>, neg |-> FALSE, mant |-> 0, scale |-> 0]

IsEmptyCell(c) == c.t \in {"null", "hole"}

\* the cell of row in column i; no cell there is an empty cell
CellAt(row, i) == IF i \in 1..Len(row) THEN row[i] ELSE NullCell

HeaderRowOf(names) == [i \in 1..Len(names) |-> Tok(names[i])]

\* The workbook file on disk.  st = "absent": no file; "partial": a file
\* that a writer (by) opened and has not finished, unreadable; "ok": a
\* workbook with one worksheet named sheet holding rows (row 1 on top).
AbsentFile == [st |-> "absent", by |-> "", sheet |-> "", rows |-> <<>>]
PartialFile(r) == [st |-> "partial", by |-> r, sheet |-> "", rows |-> <<>>]
OkFile(name, rows) == [st |-> "ok", by |-> "", sheet |-> name, rows |-> rows]

\* A worksheet in memory
Sheet(name, rows) == [sheet |-> name, rows |-> rows]

\* fs.stat + workbook.xlsx.readFile + getWorksheet in try/catch, then
\* addWorksheet('Products') when nothing was loaded
LoadSheet(f) ==
  IF f.st = "ok" THEN Sheet(f.sheet, f.rows) ELSE Sheet("Products", <<>>)

\* headerRow.values.slice(1).map(...): a string cell gives its text, any
\* other cell the empty string
HeaderNames(row) ==
  [i \in 1..Len(row) |->
    IF row[i].t = "str" /\ row[i].s # <<>> THEN row[i].s[1] ELSE ""]

Includes(names, h) == \E i \in 1..Len(names) : names[i] = h

\* headerIndex[h]: the 1-based index of the last header equal to h,
\* 0 (undefined) when there is none
headerIndex(names, h) ==
  IF Includes(names, h)
  THEN CHOOSE i \in 1..Len(names) :
         names[i] = h /\ \A j \in (i + 1)..Len(names) : names[j] # h
  ELSE 0

\* the value written for the column key k of record rec at stamp now
FieldValue(rec, now, k) ==
  CASE k = "runDate"      -> Tok(now[1])
    [] k = "runTime"      -> Tok(now[2])
    [] k = "productName"  -> rec.productName
    [] k = "sku"          -> rec.sku
    [] k = "description"  -> rec.description
    [] k = "mpn"          -> rec.mpn
    [] k = "manufacturer" -> rec.manufacturer
    [] k = "price"        -> PriceCell(rec.price)
    [] k = "stock"        -> StockCell(rec.stock)
    [] k = "productUrl"   -> rec.productUrl

\* rowValues of bluestar_all.spec.ts: a sparse array in which the value of
\* a field sits at the index of its header; a field whose header is missing
\* is assigned to rowValues[undefined] and is in no column
rowValuesAll(names, rec, now) ==
  LET idx(j) == headerIndex(names, defaultHeaders[j])
      used   == {idx(j) : j \in 1..10} \ {0}
      top    == IF used = {} THEN 0
                ELSE CHOOSE m \in used : \A n \in used : n <= m
  IN  [i \in 1..top |->
        IF i \in used
        THEN FieldValue(rec, now,
               columnKeys[CHOOSE j \in 1..10 : idx(j) = i])
        ELSE HoleCell]

\* sheet.addRow({...}) of bluestar.spec.ts: the value of key k goes to the
\* column that columnDefs gives k
rowValuesPage1(rec, now) ==
  [i \in 1..10 |-> FieldValue(rec, now, columnKeys[i])]

\* BuildAll without the header row of a new worksheet
BuildAllNoHeader(sh, records, now) ==
  LET fresh == Len(sh.rows) = 0
      old   == IF fresh THEN <<>> ELSE HeaderNames(sh.rows[1])
      names == IF fresh THEN defaultHeaders
               ELSE IF Includes(old, "MANUFACTURER") THEN old
               ELSE Append(old, "MANUFACTURER")
      head  == IF ~Includes(old, "MANUFACTURER") /\ ~fresh
               THEN <<HeaderRowOf(names)>>
               ELSE IF fresh THEN <<>> ELSE <<sh.rows[1]>>
      data  == IF fresh THEN <<>> ELSE Tail(sh.rows)
      added == [n \in 1..Len(records) |-> rowValuesAll(names, records[n], now)]
  IN  Sheet(sh.sheet, head \o data \o added)

\* BuildAll writing the batch over the rows that were there
BuildAllOverwrite(sh, records, now) ==
  LET fresh == Len(sh.rows) = 0
      old   == IF fresh THEN <<>> ELSE HeaderNames(sh.rows[1])
      names == IF fresh THEN defaultHeaders
               ELSE IF Includes(old, "MANUFACTURER") THEN old
               ELSE Append(old, "MANUFACTURER")
      head  == IF fresh \/ ~Includes(old, "MANUFACTURER")
               THEN HeaderRowOf(names) ELSE sh.rows[1]
      added == [n \in 1..Len(records) |-> rowValuesAll(names, records[n], now)]
  IN  Sheet(sh.sheet, <<head>> \o added)

\* writeExcel of bluestar_all.spec.ts between readFile and writeFile
BuildAll(sh, records, now) ==
  LET fresh == Len(sh.rows) = 0
      old   == IF fresh THEN <<>> ELSE HeaderNames(sh.rows[1])
      names == IF fresh THEN defaultHeaders
               ELSE IF Includes(old, "MANUFACTURER") THEN old
               ELSE Append(old, "MANUFACTURER")
      head  == IF fresh \/ ~Includes(old, "MANUFACTURER")
               THEN HeaderRowOf(names) ELSE sh.rows[1]
      data  == IF fresh THEN <<>> ELSE Tail(sh.rows)
      added == [n \in 1..Len(records) |-> rowValuesAll(names, records[n], now)]
  IN  Sheet(sh.sheet, <<head>> \o data \o added)

\* writeExcel of bluestar.spec.ts between readFile and writeFile
BuildPage1(sh, records, now) ==
  LET fresh == Len(sh.rows) = 0
      data  == IF fresh THEN <<>> ELSE Tail(sh.rows)
      added == [n \in 1..Len(records) |-> rowValuesPage1(records[n], now)]
  IN  Sheet(sh.sheet, <<HeaderRowOf(defaultHeaders)>> \o data \o added)

\* What workbook.xlsx.writeFile stores of a row: a hole is no cell, and
\* empty cells at the end of a row leave no trace
RECURSIVE TrimRow(_)
TrimRow(row) ==
  IF row # <<>> /\ IsEmptyCell(row[Len(row)])
  THEN TrimRow(SubSeq(row, 1, Len(row) - 1))
  ELSE [i \in 1..Len(row) |-> IF IsEmptyCell(row[i]) THEN NullCell ELSE row[i]]

Serialize(sh) == OkFile(sh.sheet, [n \in 1..Len(sh.rows) |-> TrimRow(sh.rows[n])])

\* ------------------------------------------------------------- extraction
\* A rendered product page: the text of its first h1, the text after each
\* label the regular expressions look for, and the first $ amount.
Page(h1, sku, item, mpn, man, desc, cur, stk) ==
  [h1 |-> h1, SKU |-> sku, Item |-> item, MPN |-> mpn, MANUFACTURER |-> man,
   Description |-> desc, currency |-> cur, CurrentStock |-> stk]

RECURSIVE TrimLeft(_)
TrimLeft(s) == IF s # <<>> /\ Head(s) = " " THEN TrimLeft(Tail(s)) ELSE s

RECURSIVE TrimRight(_)
TrimRight(s) ==
  IF s # <<>> /\ s[Len(s)] = " " THEN TrimRight(SubSeq(s, 1, Len(s) - 1)) ELSE s

\* x?.trim() || null
TrimOrNull(c) ==
  IF c.t # "str" THEN NullCell
  ELSE LET v == TrimRight(TrimLeft(c.s))
       IN  IF v = <<>> THEN NullCell ELSE StrCell(v)

\* a || b
OrElse(a, b) == IF a.t = "null" \/ (a.t = "str" /\ a.s = <<>>) THEN b ELSE a

extractProductDetails(url, pg) ==
  [productUrl   |-> url,
   productName  |-> OrElse(TrimOrNull(pg.h1), NullCell),
   sku          |-> OrElse(OrElse(TrimOrNull(pg.SKU), TrimOrNull(pg.Item)), NullCell),
   mpn          |-> OrElse(TrimOrNull(pg.MPN), NullCell),
   manufacturer |-> OrElse(TrimOrNull(pg.MANUFACTURER), NullCell),
   price        |-> pg.currency,
   stock        |-> OrElse(TrimOrNull(pg.CurrentStock), NullCell),
   description  |-> OrElse(TrimOrNull(pg.Description), NullCell)]

\* ------------------------------------------------------------ environment
\* The site: product URL k and the page it renders.
Url(k) == Tok(Digits[k + 1])
Urls == {Url(k) : k \in 1..MaxUrls}

CallForQuote ==
  <<"C", "a", "l", "l", " ", "f", "o", "r", " ", "q", "u", "o", "t", "e">>
Price1234 == <<"$", "1", ",", "2", "3", "4", ".", "5", "6">>
Stock12 == <<"1", "2", " ", "i", "n", " ", "s", "t", "o", "c", "k">>
StockNA == <<"N", "/", "A">>

EmptyPage ==
  Page(NullCell, NullCell, NullCell, NullCell, NullCell, NullCell, NullCell, NullCell)

PageOf(url) ==
  IF url = Url(1)
  THEN Page(StrCell(<<" ", "n", " ">>), Tok("sku"), Tok("item"), Tok("mpn"), Tok("maker"),
            Tok("text"), StrCell(Price1234), StrCell(Stock12))
  ELSE IF url = Url(2)
  THEN Page(Tok("name"), NullCell, Tok("item"), NullCell, NullCell,
            NullCell, StrCell(<<"$", ".">>), StrCell(StockNA))
  ELSE EmptyPage

\* The URLs one search page can show: any of the listed ones, in the order
\* of the site's ranking (order=relevance:desc), which is that of their
\* numbers.
RECURSIVE Ranked(_, _)
Ranked(K, k) ==
  IF k > MaxUrls THEN <<>>
  ELSE (IF k \in K THEN <<Url(k)>> ELSE <<>>) \o Ranked(K, k + 1)

Showings(n) == {Ranked(K, 1) : K \in SUBSET (1..n)}

\* Array.from(new Set([...a, ...b])): b's new elements after a, in order
RECURSIVE AddAll(_, _)
AddAll(a, b) ==
  IF b = <<>> THEN a
  ELSE AddAll(IF Includes(a, Head(b)) THEN a ELSE Append(a, Head(b)), Tail(b))

\* Workbooks that may lie in data/ before the first run: none, and
\* workbooks written by hand or by earlier revisions of the scripts.
OldRow(n) == [i \in 1..n |-> Tok("old")]

LegacyHeaders ==
  <<"DATE", "TIME", "Item Name", "SKU", "DESCRIPTION", "MPN",
    "PRICE", "STOCK", "PRODUCT URL">>

NoPriceHeaders ==
  <<"DATE", "TIME", "Item Name", "SKU", "DESCRIPTION", "MPN",
    "MANUFACTURER", "STOCK", "PRODUCT URL">>

PermutedHeaders ==
  <<"PRODUCT URL", "PRICE", "DATE", "TIME", "Item Name", "SKU",
    "DESCRIPTION", "MPN", "MANUFACTURER", "STOCK">>

OldFile(names) == OkFile("Products", <<HeaderRowOf(names), OldRow(Len(names))>>)

InitFiles ==
  {AbsentFile, OldFile(LegacyHeaders), OldFile(NoPriceHeaders),
   OldFile(PermutedHeaders)}

\* What a browser page shows: the URL it is at and its content.  A new
\* page is blank; the login and search pages hold nothing that a product
\* record is taken from.
BlankPage == [url |-> Tok("about:blank"), content |-> EmptyPage]
LoginPage == [url |-> Tok("login"), content |-> EmptyPage]
SearchPage == [url |-> Tok("search"), content |-> EmptyPage]

\* the page after goto(url), waitForLoadState and the caught wait for h1:
\* when that wait fails nothing of the product has rendered
Rendered(url, o) ==
  [url |-> url, content |-> IF o = "ok" THEN PageOf(url) ELSE EmptyPage]

\* runDate and runTime of a test's writeExcel: new Date() formatted
StampOf(r) == IF r = "page1" THEN <<"d1", "t1">> ELSE <<"d2", "t2">>

\* ------------------------------------------------------------------ state
VARIABLES
  env,          \* process.env: MEDSTAT_EMAIL, MEDSTAT_PASSWORD ("" = unset or empty)
  workers,      \* worker processes of the test runner (no workers: in the config)
  pc,           \* where each test is
  pageIdx,      \* i of the search-page loop
  allUrls,      \* allUrls / productUrls, in discovery order
  processed,    \* product URLs visited so far
  results,      \* the in-memory batch of records
  urlsJson,     \* product_urls_page1.json / product_urls_all.json
  productsJson, \* products_page1.json / products_all.json
  dataDir,      \* whether OUTPUT_DIR exists
  file,         \* data/products_all.xlsx
  seen,         \* what each test read of the workbook file
  wb,           \* the worksheet each test built in memory
  navs,         \* page.goto calls each test has issued
  page,         \* what each test's browser page shows: its URL and content
  writes,       \* workbook.xlsx.writeFile calls each test has issued
  err,          \* the error that ended each test
  cin,          \* coercion input
  cop,          \* coercion applied to cin
  cout          \* the cell the coercion produced

vars ==
  <<env, workers, pc, pageIdx, allUrls, processed, results, urlsJson,
    productsJson, dataDir, file, seen, wb, navs, page, writes, err, cin, cop,
    cout>>

scrapeVars ==
  <<env, workers, pc, pageIdx, allUrls, processed, results, urlsJson,
    productsJson, dataDir, file, seen, wb, navs, page, writes, err>>

coerceVars == <<cin, cop, cout>>

\* the two tests, by the file that holds them
Runs == {"page1", "all"}

\* test files run in the order of their names: bluestar.spec.ts first
RunOrder == <<"page1", "all">>

Ended == {"passed", "failed", "crashed"}

\* search pages a test walks: one, or the loop 1..TOTAL_PAGES
NumPages(r) == IF r = "all" THEN TOTAL_PAGES ELSE 1

\* outcomes of a page step: "navFail" is a rejection of page.goto or
\* waitForLoadState, "waitFail" one of a wait that has a .catch
Outcomes == {"ok", "navFail", "waitFail"}

\* how many product URLs the site lists
Listed == IF workers >= 2 THEN MaxParUrls ELSE MaxUrls

NoJson == [exists |-> FALSE, data |-> <<>>]

ScrapeInit ==
  /\ env \in [email : {"", "user"}, password : {"", "secret"}]
  /\ workers \in {1, 2}
  /\ pc = [r \in Runs |-> "idle"]
  /\ pageIdx = [r \in Runs |-> 1]
  /\ allUrls = [r \in Runs |-> <<>>]
  /\ processed = [r \in Runs |-> 0]
  /\ results = [r \in Runs |-> <<>>]
  /\ urlsJson = [r \in Runs |-> NoJson]
  /\ productsJson = [r \in Runs |-> NoJson]
  /\ file \in InitFiles
  /\ dataDir = (file.st # "absent")
  /\ seen = [r \in Runs |-> AbsentFile]
  /\ wb = [r \in Runs |-> Sheet("", <<>>)]
  /\ navs = [r \in Runs |-> 0]
  /\ page = [r \in Runs |-> BlankPage]
  /\ writes = [r \in Runs |-> 0]
  /\ err = [r \in Runs |-> "none"]

CoerceIdle == cin = NullCell /\ cop = "none" /\ cout = NullCell

Init == ScrapeInit /\ CoerceIdle

\* ---------------------------------------------------------------- actions
\* The runner starts a test: at once with a worker per file, after the
\* earlier files' tests with one worker.  test.slow, setTimeout,
\* ensureOutputDir.
Start(r) ==
  /\ pc[r] = "idle"
  /\ \/ workers >= 2
     \/ \A i \in 1..Len(RunOrder) :
          i < (CHOOSE j \in 1..Len(RunOrder) : RunOrder[j] = r)
            => pc[RunOrder[i]] \in Ended
  /\ pc' = [pc EXCEPT ![r] = "login"]
  /\ dataDir' = TRUE
  /\ UNCHANGED <<env, workers, writes, pageIdx, allUrls, processed, results, urlsJson,
                 productsJson, file, seen, wb, navs, page, err, coerceVars>>

CredsMissingBoth(e) == e.email = "" /\ e.password = ""
\* !email || !password
CredsMissingEither(e) == e.email = "" \/ e.password = ""

\* the locals of a test leave scope with it
Release(r) ==
  /\ pageIdx' = [pageIdx EXCEPT ![r] = 1]
  /\ allUrls' = [allUrls EXCEPT ![r] = <<>>]
  /\ processed' = [processed EXCEPT ![r] = 0]
  /\ results' = [results EXCEPT ![r] = <<>>]
  /\ seen' = [seen EXCEPT ![r] = AbsentFile]
  /\ wb' = [wb EXCEPT ![r] = Sheet("", <<>>)]
  /\ page' = [page EXCEPT ![r] = BlankPage]

\* the test ends: how is "passed", "failed" (an uncaught error why) or
\* "crashed"
End(r, how, why) ==
  /\ pc' = [pc EXCEPT ![r] = how]
  /\ err' = [err EXCEPT ![r] = why]
  /\ Release(r)

locals == <<pageIdx, allUrls, processed, results, seen, wb, page>>

\* loginIfNeeded
loginIfNeeded(r) ==
  /\ pc[r] = "login"
  /\ IF CredsMissingEither(env)
     THEN /\ End(r, "failed", "config")
          /\ UNCHANGED navs
     ELSE \E o \in Outcomes :
          /\ navs' = [navs EXCEPT ![r] = @ + 1]
          /\ IF o = "navFail" THEN End(r, "failed", "navigation")
             ELSE /\ pc' = [pc EXCEPT ![r] = "collect"]
                  /\ page' = [page EXCEPT ![r] = LoginPage]
                  /\ UNCHANGED <<err, pageIdx, allUrls, processed, results,
                                 seen, wb>>
  /\ UNCHANGED <<env, workers, writes, urlsJson, productsJson, dataDir, file, coerceVars>>

\* collectProductUrlsForPage(page, i) and the loop around it;
\* collectFirstPageProductUrls
collectProductUrlsForPage(r) ==
  /\ pc[r] = "collect"
  /\ pageIdx[r] <= NumPages(r)
  /\ \E o \in Outcomes :
       /\ navs' = [navs EXCEPT ![r] = @ + 1]
       /\ IF o = "navFail"
          THEN End(r, "failed", "navigation")
          ELSE /\ \E found \in Showings(Listed) :
                    allUrls' = [allUrls EXCEPT ![r] = AddAll(@, found)]
               /\ pageIdx' = [pageIdx EXCEPT ![r] = @ + 1]
               /\ page' = [page EXCEPT ![r] = SearchPage]
               /\ UNCHANGED <<pc, err, processed, results, seen, wb>>
  /\ UNCHANGED <<env, workers, writes, urlsJson, productsJson, dataDir, file, coerceVars>>

\* saveJson('product_urls_*.json', productUrls)
saveUrls(r) ==
  /\ pc[r] = "collect"
  /\ pageIdx[r] > NumPages(r)
  /\ urlsJson' = [urlsJson EXCEPT ![r] = [exists |-> TRUE, data |-> allUrls[r]]]
  /\ dataDir' = TRUE
  /\ pc' = [pc EXCEPT ![r] = "visit"]
  /\ UNCHANGED <<env, workers, writes, locals, productsJson, file, navs, err, coerceVars>>

\* one turn of: for (const url of productUrls) { goto; waitForLoadState;
\* waitFor(...).catch; extractProductDetails; results.push }
visit(r) ==
  /\ pc[r] = "visit"
  /\ processed[r] < Len(allUrls[r])
  /\ LET url == allUrls[r][processed[r] + 1] IN
     \E o \in Outcomes :
       /\ navs' = [navs EXCEPT ![r] = @ + 1]
       /\ IF o = "navFail"
          THEN End(r, "failed", "navigation")
          ELSE /\ page' = [page EXCEPT ![r] = Rendered(url, o)]
               /\ results' = [results EXCEPT ![r] = Append(@,
                    extractProductDetails(page'[r].url, page'[r].content))]
               /\ processed' = [processed EXCEPT ![r] = @ + 1]
               /\ UNCHANGED <<pc, err, pageIdx, allUrls, seen, wb>>
  /\ UNCHANGED <<env, workers, writes, urlsJson, productsJson, dataDir, file, coerceVars>>

\* saveProducts from inside the loop over the product URLs
saveProductsEarly(r) ==
  /\ pc[r] = "visit"
  /\ productsJson' = [productsJson EXCEPT
                        ![r] = [exists |-> TRUE, data |-> results[r]]]
  /\ dataDir' = TRUE
  /\ pc' = [pc EXCEPT ![r] = "xlsRead"]
  /\ UNCHANGED <<env, workers, writes, locals, urlsJson, file, navs, err, coerceVars>>

\* saveJson('products_*.json', results)
saveProducts(r) ==
  /\ pc[r] = "visit"
  /\ processed[r] = Len(allUrls[r])
  /\ productsJson' = [productsJson EXCEPT
                        ![r] = [exists |-> TRUE, data |-> results[r]]]
  /\ dataDir' = TRUE
  /\ pc' = [pc EXCEPT ![r] = "xlsRead"]
  /\ UNCHANGED <<env, workers, writes, locals, urlsJson, file, navs, err, coerceVars>>

\* xlsRead with the write stream opened before the workbook is read
xlsReadTruncating(r) ==
  /\ pc[r] = "xlsRead"
  /\ seen' = [seen EXCEPT ![r] = file]
  /\ file' = PartialFile(r)
  /\ dataDir' = TRUE
  /\ pc' = [pc EXCEPT ![r] = "xlsBuild"]
  /\ UNCHANGED <<env, workers, writes, pageIdx, allUrls, processed, results, urlsJson,
                 productsJson, wb, navs, page, err, coerceVars>>

\* writeExcel up to the end of its try/catch: mkdir, stat, readFile
xlsRead(r) ==
  /\ pc[r] = "xlsRead"
  /\ seen' = [seen EXCEPT ![r] = file]
  /\ dataDir' = TRUE
  /\ pc' = [pc EXCEPT ![r] = "xlsBuild"]
  /\ UNCHANGED <<env, workers, writes, pageIdx, allUrls, processed, results, urlsJson,
                 productsJson, file, wb, navs, page, err, coerceVars>>

\* the worksheet a test builds from what it read
Build(r, sh, records, now) ==
  IF r = "all" THEN BuildAll(sh, records, now) ELSE BuildPage1(sh, records, now)

\* writeExcel from the header logic to the call of workbook.xlsx.writeFile,
\* which opens filePath for writing and so empties it
xlsOpen(r) ==
  /\ pc[r] = "xlsBuild"
  /\ wb' = [wb EXCEPT ![r] = Build(r, LoadSheet(seen[r]), results[r], StampOf(r))]
  /\ file' = PartialFile(r)
  /\ pc' = [pc EXCEPT ![r] = "xlsWriting"]
  /\ writes' = [writes EXCEPT ![r] = @ + 1]
  /\ UNCHANGED <<env, workers, pageIdx, allUrls, processed, results, urlsJson,
                 productsJson, dataDir, seen, navs, page, err, coerceVars>>

\* writeFile completes.  If another process opened or wrote the file in
\* the meantime the bytes of the two writers may interleave.
xlsFinish(r) ==
  /\ pc[r] = "xlsWriting"
  /\ file' \in IF file = PartialFile(r) THEN {Serialize(wb[r])}
               ELSE {Serialize(wb[r]), PartialFile(r)}
  /\ pc' = [pc EXCEPT ![r] = "expect"]
  /\ UNCHANGED <<env, workers, writes, locals, urlsJson, productsJson, dataDir, navs,
                 err, coerceVars>>

\* expect(results.length).toBeGreaterThan(0), and in bluestar.spec.ts
\* expect(results.every((r) => !!r.productUrl)).toBeTruthy()
expectResults(r) ==
  /\ pc[r] = "expect"
  /\ IF /\ Len(results[r]) > 0
        /\ r = "page1" =>
             \A i \in 1..Len(results[r]) : ~IsEmptyCell(results[r][i].productUrl)
     THEN End(r, "passed", "none")
     ELSE End(r, "failed", "assert")
  /\ UNCHANGED <<env, workers, writes, urlsJson, productsJson, dataDir, file, navs,
                 coerceVars>>

\* the process of a running test is killed (crash, or the whole-run timeout)
crash(r) ==
  /\ pc[r] \notin Ended \cup {"idle"}
  /\ End(r, "crashed", "killed")
  /\ UNCHANGED <<env, workers, writes, urlsJson, productsJson, dataDir, file, navs,
                 coerceVars>>

Next ==
  \E r \in Runs :
    \/ Start(r)
    \/ loginIfNeeded(r)
    \/ collectProductUrlsForPage(r)
    \/ saveUrls(r)
    \/ visit(r)
    \/ saveProducts(r)
    \/ xlsRead(r)
    \/ xlsOpen(r)
    \/ xlsFinish(r)
    \/ expectResults(r)
    \/ crash(r)

Spec == Init /\ [][Next]_vars

\* ------------------------------------------------- coercion on its own
\* the characters of the enumerated price / stock strings
Alphabet == {"0", "1", "5", ".", "-", "$", ",", "N"}

RECURSIVE StringsUpTo(_)
StringsUpTo(n) ==
  IF n = 0 THEN {<<>>}
  ELSE LET shorter == StringsUpTo(n - 1)
       IN  shorter \cup {Append(s, c) : s \in shorter, c \in Alphabet}

Inputs == StringsUpTo(MaxLen) \cup {CallForQuote, Price1234, Stock12, StockNA}

ScrapeIdle ==
  /\ env = [email |-> "", password |-> ""]
  /\ workers = 1
  /\ pc = [r \in Runs |-> "idle"]
  /\ pageIdx = [r \in Runs |-> 1]
  /\ allUrls = [r \in Runs |-> <<>>]
  /\ processed = [r \in Runs |-> 0]
  /\ results = [r \in Runs |-> <<>>]
  /\ urlsJson = [r \in Runs |-> NoJson]
  /\ productsJson = [r \in Runs |-> NoJson]
  /\ file = AbsentFile
  /\ dataDir = FALSE
  /\ seen = [r \in Runs |-> AbsentFile]
  /\ wb = [r \in Runs |-> Sheet("", <<>>)]
  /\ navs = [r \in Runs |-> 0]
  /\ page = [r \in Runs |-> BlankPage]
  /\ writes = [r \in Runs |-> 0]
  /\ err = [r \in Runs |-> "none"]

CoerceInit ==
  /\ ScrapeIdle
  /\ cin \in {NullCell} \cup {StrCell(s) : s \in Inputs}
  /\ cop = "none"
  /\ cout = NullCell

\* rowValues[headerIndex['PRICE']] = priceNumber ?? rec.price ?? null
coercePrice ==
  /\ cop = "none"
  /\ cop' = "price"
  /\ cout' = PriceCell(cin)
  /\ UNCHANGED <<cin, scrapeVars>>

\* rowValues[headerIndex['STOCK']] = stockNumber ?? rec.stock ?? null
coerceStock ==
  /\ cop = "none"
  /\ cop' = "stock"
  /\ cout' = StockCell(cin)
  /\ UNCHANGED <<cin, scrapeVars>>

CoerceNext == coercePrice \/ coerceStock

SpecCoerce == CoerceInit /\ [][CoerceNext]_vars

\* ================================================================ claims
\* the number that the decimal digits ds spell, most significant first
RECURSIVE Spelled(_)
Spelled(ds) ==
  IF ds = <<>> THEN 0
  ELSE DigitVal(Head(ds)) * (10 ^ (Len(ds) - 1)) + Spelled(Tail(ds))

\* s spells a decimal number: an optional "-", digits with at most one "."
\* among them, and at least one digit
SpellsDecimal(s) ==
  LET body == IF s # <<>> /\ Head(s) = "-" THEN Tail(s) ELSE s
      dots == {i \in 1..Len(body) : body[i] = "."}
  IN  /\ \A i \in 1..Len(body) : IsDigit(body[i]) \/ body[i] = "."
      /\ Cardinality(dots) <= 1
      /\ \E i \in 1..Len(body) : IsDigit(body[i])

\* C3: a price string is stored as the number that its digits, "." and "-"
\* spell when they spell one, and verbatim otherwise; "$1,234.56" is stored
\* as the number 1234.56 and "Call for quote" as that string.
PriceStoredAsClaimed ==
  (cop = "price" /\ cin.t = "str" /\ cin.s # <<>>) =>
    LET kept == SelectSeq(cin.s, LAMBDA c : c \in DigitSet \cup {".", "-"})
    IN  /\ IF SpellsDecimal(kept) THEN cout.t = "num" ELSE cout = cin
        /\ cin.s = Price1234 =>
             cout = [t |-> "num", s |-> <<>>, neg |-> FALSE,
                     mant |-> 123456, scale |-> 2]
        /\ cin.s = CallForQuote => cout = cin

\* C8: a stock string is stored as the integer read from the start of what
\* is left of it after dropping everything but digits and "-" (an optional
\* "-", then digits), and verbatim when no integer starts there; "12 in
\* stock" is stored as the number 12 and "N/A" as that string.
StockStoredAsClaimed ==
  (cop = "stock" /\ cin.t = "str" /\ cin.s # <<>>) =>
    LET kept == SelectSeq(cin.s, LAMBDA c : c \in DigitSet \cup {"-"})
        neg  == kept # <<>> /\ Head(kept) = "-"
        body == IF neg THEN Tail(kept) ELSE kept
        runs == {k \in 1..Len(body) :
                   /\ \A i \in 1..k : IsDigit(body[i])
                   /\ k = Len(body) \/ ~IsDigit(body[k + 1])}
    IN  /\ IF runs = {} THEN cout = cin
           ELSE \E k \in runs :
                  cout = [t |-> "num", s |-> <<>>, neg |-> neg,
                          mant |-> Spelled(SubSeq(body, 1, k)), scale |-> 0]
        /\ cin.s = Stock12 =>
             cout = [t |-> "num", s |-> <<>>, neg |-> FALSE,
                     mant |-> 12, scale |-> 0]
        /\ cin.s = StockNA => cout = cin

\* C8 witness: "12 in stock" went through the stock coercion
Stock12Coerced ==
  cop = "stock" /\ cin = StrCell(Stock12) /\ cout.t = "num" /\ cout.mant = 12

\* C9: with either credential variable unset or empty a test that has
\* started gets no further than the configuration error: it has navigated
\* nowhere, written neither JSON file, and the workbook is as it was.
ConfigErrorBeforeNavigation ==
  (env.email = "" \/ env.password = "") =>
    /\ file \in InitFiles
    /\ \A r \in Runs :
         /\ pc[r] \in {"idle", "login", "failed", "crashed"}
         /\ pc[r] = "failed" => err[r] = "config"
         /\ navs[r] = 0
         /\ ~urlsJson[r].exists
         /\ ~productsJson[r].exists

\* C9 witness: only the password is missing and a test failed on it
FailedOnMissingPassword ==
  /\ env.email # "" /\ env.password = ""
  /\ \E r \in Runs : pc[r] = "failed" /\ err[r] = "config" /\ navs[r] = 0

\* the data rows of a workbook file or worksheet: all rows under row 1
DataRows(f) == IF Len(f.rows) = 0 THEN <<>> ELSE Tail(f.rows)

\* test r builds its worksheet and opens the file in this step
Builds(r) == pc[r] = "xlsBuild" /\ pc'[r] = "xlsWriting"

\* test r's writeFile completes in this step
Completes(r) == pc[r] = "xlsWriting" /\ pc'[r] = "expect"

\* two cells show the same: both empty, or equal
SameCell(a, b) == (IsEmptyCell(a) /\ IsEmptyCell(b)) \/ a = b

CanonicalHeaderRow ==
  <<Tok("DATE"), Tok("TIME"), Tok("Item Name"), Tok("SKU"), Tok("DESCRIPTION"),
    Tok("MPN"), Tok("MANUFACTURER"), Tok("PRICE"), Tok("STOCK"),
    Tok("PRODUCT URL")>>

\* C1: when either test appends to an existing workbook, every column that
\* was there keeps its position and header name, new columns come after all
\* of them, and every row that was there keeps its cells and has an empty
\* cell under each new column.
ColumnsKeepTheirPlace ==
  [][\A r \in Runs :
       (Builds(r) /\ seen[r].st = "ok" /\ Len(seen[r].rows) > 0) =>
         LET old == seen[r].rows
             new == wb'[r].rows
             had == Len(old[1])
         IN  /\ Len(new[1]) >= had
             /\ \A i \in 1..had : new[1][i] = old[1][i]
             /\ \A n \in 2..Len(old) :
                  /\ \A i \in 1..had : SameCell(CellAt(new[n], i), CellAt(old[n], i))
                  /\ \A i \in (had + 1)..Len(new[1]) : IsEmptyCell(CellAt(new[n], i))
    ]_vars

\* C2: whatever header row the workbook has, each appended row holds the
\* value of every canonical field under the column whose header is that
\* field's display name (the price under "PRICE"), and none is dropped.
ValuesUnderTheirNames ==
  [][\A r \in Runs :
       Builds(r) =>
         LET sh    == wb'[r]
             first == Len(sh.rows) - Len(results[r])
         IN  \A k \in 1..Len(results[r]) : \A j \in 1..10 :
               \E i \in 1..Len(sh.rows[1]) :
                 /\ sh.rows[1][i] = Tok(defaultHeaders[j])
                 /\ SameCell(CellAt(sh.rows[first + k], i),
                             FieldValue(results[r][k], StampOf(r), columnKeys[j]))
    ]_vars

\* C4: a write that follows an earlier run's write adds exactly its batch:
\* the data rows afterwards are the data rows read, unchanged and in place,
\* followed by one row per record.
RunsAreCumulative ==
  [][\A r \in Runs :
       (Completes(r) /\ seen[r].st = "ok" /\ file'.st = "ok") =>
         LET before == DataRows(seen[r])
             after  == DataRows(file')
         IN  /\ Len(after) = Len(before) + Len(results[r])
             /\ \A n \in 1..Len(before) : after[n] = before[n]
    ]_vars

\* C4 witness: with one worker, the pages-1-7 test wrote two records after
\* the rows that the page-1 test had written before it
SecondRunAppended ==
  /\ workers = 1
  /\ pc["all"] = "expect"
  /\ seen["all"].st = "ok" /\ file.st = "ok"
  /\ Len(results["all"]) = 2
  /\ Len(file.rows) = Len(seen["all"].rows) + 2
  /\ \E n \in 2..Len(seen["all"].rows) : seen["all"].rows[n][1] = Tok("d1")

\* C5: no test writes the workbook between another test's read of it and
\* that test's write-back: what a test read is still what is on disk when
\* it writes.
NoWriteBetweenReadAndWrite ==
  \A r \in Runs : pc[r] = "xlsBuild" => file = seen[r]

\* C6: a failing navigation or wait on a search page or a product page
\* never ends the test: after every such page step the test is still going.
PageFailureDoesNotAbort ==
  [][\A r \in Runs :
       (pc[r] \in {"collect", "visit"} /\ navs'[r] > navs[r]) => pc'[r] \notin Ended
    ]_vars

\* C7: a batch of N records written where no workbook was gives one
\* worksheet named Products with the canonical header row and N data rows.
FreshWorkbookShape ==
  [][\A r \in Runs :
       (Completes(r) /\ seen[r].st = "absent" /\ file'.st = "ok") =>
         /\ file'.sheet = "Products"
         /\ Len(file'.rows) = 1 + Len(results[r])
         /\ file'.rows[1] = CanonicalHeaderRow
    ]_vars

\* C7 witness: the pages-1-7 test found no workbook and wrote two records
FreshWorkbookWritten ==
  /\ pc["all"] = "expect"
  /\ seen["all"].st = "absent" /\ file.st = "ok"
  /\ Len(results["all"]) = 2
  /\ Len(file.rows) = 3

\* what belongs to test r alone
Own(r) ==
  <<pc[r], pageIdx[r], allUrls[r], processed[r], results[r], seen[r], wb[r],
    urlsJson[r], productsJson[r], navs[r], err[r]>>

\* C10 as stated: no step of a test, other than the one in which its
\* writeFile completes, changes the workbook on disk, so a crash before
\* that leaves the previous file.
FileUntouchedUntilWritten ==
  [][\A r \in Runs :
       (Own(r)' # Own(r) /\ ~Completes(r)) => file' = file
    ]_vars

\* C10 amended: no step of a test before its call of writeFile changes the
\* workbook on disk, so a crash before that call leaves the previous file.
FileUntouchedUntilOpened ==
  [][\A r \in Runs :
       (Own(r)' # Own(r) /\ pc[r] \notin {"xlsBuild", "xlsWriting"}) => file' = file
    ]_vars

\* C10 witness: a test was killed after reading an earlier workbook and
\* before writing, and that workbook is still there
KilledBeforeWriting ==
  \E r \in Runs :
    /\ pc[r] = "crashed"
    /\ productsJson[r].exists
    /\ file \in InitFiles /\ file.st = "ok"

\* the fields of a record other than productUrl
OptionalKeys ==
  {"productName", "sku", "description", "mpn", "manufacturer", "price", "stock"}

\* nothing but the URL was extracted
OnlyUrl(rec) ==
  /\ rec.productName = NullCell /\ rec.sku = NullCell /\ rec.mpn = NullCell
  /\ rec.manufacturer = NullCell /\ rec.price = NullCell
  /\ rec.stock = NullCell /\ rec.description = NullCell

\* test r visits a product page in this step and pushes its record
Pushes(r) == pc[r] = "visit" /\ processed'[r] = processed[r] + 1

\* the rows a worksheet has once its header row is in place
RowsWithHeader(sh) == IF Len(sh.rows) = 0 THEN 1 ELSE Len(sh.rows)

\* C11: a product page with no h1 text, no label match and no currency
\* match gives a record in which productUrl, the URL of the page, is the
\* only field that is not null; the worksheet gets one row per record, and
\* the row of such a record has, for every canonical field, a cell of its
\* own in the column under that field's header: an explicit null cell for
\* each absent field, the URL under PRODUCT URL, the stamps under DATE and
\* TIME.
AbsentFieldsAreNullCells ==
  [][\A r \in Runs :
       /\ (Pushes(r) /\ page'[r].content = EmptyPage) =>
            /\ Len(results'[r]) = Len(results[r]) + 1
            /\ results'[r][Len(results'[r])].productUrl = page'[r].url
            /\ OnlyUrl(results'[r][Len(results'[r])])
       /\ Builds(r) =>
            LET sh    == wb'[r]
                first == Len(sh.rows) - Len(results[r])
            IN  /\ Len(sh.rows) =
                     RowsWithHeader(LoadSheet(seen[r])) + Len(results[r])
                /\ \A k \in 1..Len(results[r]) :
                     OnlyUrl(results[r][k]) =>
                       \A j \in 1..10 :
                         \E i \in 1..Len(sh.rows[first + k]) :
                           /\ sh.rows[1][i] = Tok(defaultHeaders[j])
                           /\ sh.rows[first + k][i] =
                                IF columnKeys[j] \in OptionalKeys THEN NullCell
                                ELSE FieldValue(results[r][k], StampOf(r),
                                                columnKeys[j])
    ]_vars

\* test r calls workbook.xlsx.writeFile in this step
BeginsWrite(r) == writes'[r] # writes[r]

\* C12: a test calls writeFile at most once, and has called it once when it
\* reaches its final checks; when the call begins every discovered URL has
\* been visited, the batch holds one record per URL in discovery order, and
\* the URL-list JSON and the products JSON hold the URLs and the batch; each
\* turn of the loop visits the next URL and pushes one record for it.
WriteOnceAfterAllVisited ==
  [][\A r \in Runs :
       /\ writes[r] <= 1
       /\ pc[r] = "expect" => writes[r] = 1
       /\ BeginsWrite(r) =>
            /\ writes[r] = 0 /\ writes'[r] = 1
            /\ processed[r] = Len(allUrls[r])
            /\ Len(results[r]) = Len(allUrls[r])
            /\ \A i \in 1..Len(allUrls[r]) :
                 results[r][i].productUrl = allUrls[r][i]
            /\ urlsJson[r] = [exists |-> TRUE, data |-> allUrls[r]]
            /\ productsJson[r] = [exists |-> TRUE, data |-> results[r]]
       /\ Pushes(r) =>
            /\ Len(results'[r]) = Len(results[r]) + 1
            /\ SubSeq(results'[r], 1, Len(results[r])) = results[r]
            /\ results'[r][Len(results'[r])].productUrl =
                 allUrls[r][processed[r] + 1]
            /\ writes[r] = 0
    ]_vars

\* C12 witness: a test that discovered two URLs has written the workbook
\* once, with a record for each URL in the order of discovery, and is at
\* its final checks
WroteOnceAfterTwoVisits ==
  \E r \in Runs :
    /\ pc[r] = "expect" /\ writes[r] = 1
    /\ Len(allUrls[r]) = 2 /\ processed[r] = 2
    /\ results[r][1].productUrl = allUrls[r][1]
    /\ results[r][2].productUrl = allUrls[r][2]
    /\ urlsJson[r].exists /\ productsJson[r].exists

====
